---- MODULE Spec2Model ----
(***************************************************************************)
(* Model of DependencyVisualizer (src/dependency_visualizer.py): the       *)
(* source adapter with the registry's version selection, the graph builder *)
(* in its two traversal modes, the reverse-dependency index, the cycle     *)
(* finder and the two Graphviz exports.                                    *)
(*                                                                         *)
(* Representation.  A Python dict is a function whose DOMAIN is the set of *)
(* its keys; where the code iterates a dict, the iteration (insertion)     *)
(* order is kept beside it as a sequence of keys.  A dependency mapping    *)
(* (name -> version constraint) is represented by the sequence of its keys *)
(* in insertion order: the builder, the reverse index and the cycle logic  *)
(* only ever read the keys.  A node record is                              *)
(*   [dependencies, level, error]  with error = <<>> when the record has   *)
(* no 'error' key and <<message>> when it has one.                         *)
(*                                                                         *)
(* Environment.  `source` is what is stored at an existing repository_url  *)
(* path: a directory of manifests or one JSON file.  Test mode joins the   *)
(* path with the package name and reads <path>/<name>/package.json, so a   *)
(* file there has no manifest below it; graph_file mode opens the path, so *)
(* a directory there cannot be read.  `working_directory` is what the      *)
(* relative paths reach: with the empty repository_url of the default      *)
(* config test mode reads ./<name>/package.json.  `registry` is what       *)
(* registry.npmjs.org answers for each requested name; for the empty       *)
(* default package_name the request goes to the registry's root, which     *)
(* answers with a JSON object that has no versions, or fails.              *)
(* `config_files` are the files the coming load_config calls can find.     *)
(* load_config updates the config before it validates it, so a config      *)
(* that fails validation (an unknown repository_mode, a path that does not *)
(* exist, a remote URL that is no http URL, an empty name) stays in the    *)
(* instance, and the operations called afterwards run on it.  The          *)
(* behaviours start in four families: test repositories with a valid test  *)
(* config, graph files with a valid graph_file config, registries with a   *)
(* valid remote config, and a few directories and files with every config  *)
(* file, valid or not, loaded once or twice.                               *)
(***************************************************************************)
EXTENDS Integers, Sequences, FiniteSets, TLC

\* Package names that occur in the modelled sources.
Packages == {"A", "B", "C"}

\* A fixed enumeration order of Packages, used only to build the sources.
PkgOrder == <<"A", "B", "C">>

\* Bound: total number of dependency entries written in one source.
MaxEdges == 4

\* The values of RepositoryMode (valid_modes of _validate_config).
Modes == {"test", "remote", "graph_file"}

----------------------------------------------------------------------------
(* Generic helpers on sequences and dicts *)

Range(s) == {s[i] : i \in DOMAIN s}

EmptyMap == [x \in {} |-> x]

\* d[k] = v
Put(d, k, v) == [x \in (DOMAIN d) \cup {k} |-> IF x = k THEN v ELSE d[x]]

\* list.index(x): the first position of x
IndexOf(s, x) == CHOOSE i \in 1..Len(s) : s[i] = x /\ \A j \in 1..(i - 1) : s[j] # x

IsDistinct(s) == \A i, j \in 1..Len(s) : s[i] = s[j] => i = j

----------------------------------------------------------------------------
(* The environment: what is stored at repository_url, what the registry  *)
(* answers, and what load_config finds at config_path                    *)

\* What a path holds is a document [top, items]:
\*   top "directory"  a directory; items[name] is <path>/<name>/package.json,
\*                    and items[""] is <path>/package.json
\*   top "object"     a JSON file whose top level is an object; items[key]
\*                    is the value under the key
\*   top "other"      a JSON file whose top level is no object
\*   top "missing"    nothing: the path does not exist
\* One entry of items:
\*   "list"    a list of dependency names (directory: the manifest's dependencies keys)
\*   "absent"  no such top-level key (directory: no such package.json)
\*   "invalid" a value that is not a list of strings (directory: unparsable package.json)
Listed(deps) == [kind |-> "list", deps |-> deps]
Absent == [kind |-> "absent", deps |-> <<>>]
Invalid == [kind |-> "invalid", deps |-> <<>>]

\* The lists of at most `budget` dependency names.
NamesUpTo(budget) == UNION {[1..n -> Packages] : n \in 0..budget}

EntryKinds == {"list", "absent", "invalid"}

EntryOf(kind, deps) ==
    IF kind = "list" THEN Listed(deps)
    ELSE IF kind = "absent" THEN Absent ELSE Invalid

\* One way of writing the entries of the three packages: their dependency
\* names one after the other (t[1], cut after the first t[2] and the first
\* t[3] names) and the kind of each entry (t[4], t[5], t[6]); an entry that
\* is no list holds no names.
Layouts(budget) ==
    {t \in NamesUpTo(budget) \X (0..budget) \X (0..budget)
           \X EntryKinds \X EntryKinds \X EntryKinds :
        /\ t[2] <= t[3]
        /\ t[3] <= Len(t[1])
        /\ t[4] # "list" => t[2] = 0
        /\ t[5] # "list" => t[3] = t[2]
        /\ t[6] # "list" => Len(t[1]) = t[3]}

\* Every assignment of entries to the packages that writes at most `budget`
\* dependency names in total.
ItemsUpTo(budget) ==
    {(PkgOrder[1] :> EntryOf(t[4], SubSeq(t[1], 1, t[2])))
     @@ (PkgOrder[2] :> EntryOf(t[5], SubSeq(t[1], t[2] + 1, t[3])))
     @@ (PkgOrder[3] :> EntryOf(t[6], SubSeq(t[1], t[3] + 1, Len(t[1]))))
     : t \in Layouts(budget)}

\* A directory of manifests, and a JSON file that holds an object.
Directory(items) == [top |-> "directory", items |-> items]
JsonFile(items) == [top |-> "object", items |-> items]

\* A document whose top level is not a JSON object (graph_file mode).
NotObjectDoc == [top |-> "other", items |-> [p \in Packages |-> Absent]]

\* A directory without any package.json.
EmptyDirectory == Directory([p \in Packages |-> Absent])

\* The entries of the local runs' sources.
SourceItems == ItemsUpTo(MaxEdges)

\* The test repositories and the graph files of the local runs.
TestRepositories == {Directory(f) : f \in SourceItems}

GraphFiles == {JsonFile(f) : f \in SourceItems} \cup {NotObjectDoc}

\* What a path that does not exist holds: nothing can be opened under it.
MissingDoc == [top |-> "missing", items |-> [p \in Packages |-> Absent]]

\* repository_url, by what the code asks of it:
\*   ""         the empty string of the default config; os.path.join("", name,
\*              "package.json") is a path relative to the working directory
\*   "path"     a path that exists; `source` is what is stored there
\*   "missing"  a path that does not exist
\*   "http"     a URL that starts with http:// or https:// (not a path)
Urls == {"", "path", "missing", "http"}

\* os.path.exists(repository_url)
PathExists(url) == url = "path"

\* repository_url.startswith('http://') or repository_url.startswith('https://')
IsHttpUrl(url) == url = "http"

\* What the file system holds under the configured repository_url: `doc` at
\* the path, the working directory `cwd` under the empty string (for the
\* paths joined to it; open("") itself finds no file), nothing elsewhere.
AtUrl(cfg, doc, cwd) ==
    CASE cfg.repository_url = "path" -> doc
      [] cfg.repository_url = "" -> cwd
      [] OTHER -> MissingDoc

\* The remote registry.  A version string is the sequence of the code points
\* of its characters: "", "1", "10", "2".
VersionStrings == {<<>>, <<49>>, <<49, 48>>, <<50>>}

\* An optional value: <<>> for None, <<v>> for the value v.
None == <<>>
Some(v) == <<v>>

\* One entry of the registry answer's "versions" object: whether it has a
\* "dependencies" key, and the names under it.
VersionData ==
    {[declares |-> FALSE, dependencies |-> <<>>]}
    \cup {[declares |-> TRUE, dependencies |-> d]
          : d \in {<<>>, <<"A">>, <<"B">>, <<"B", "C">>}}

\* The registry's answer for a package: "versions" and dist-tags.latest.
PackageInfos ==
    UNION {[versions : [vs -> VersionData],
            latest : {None} \cup {Some(v) : v \in VersionStrings}]
           : vs \in SUBSET VersionStrings}

Unreachable == [kind |-> "unreachable"]
Fetched(package_info) == [kind |-> "info", info |-> package_info]

\* The names a root package can have: a package, or the empty string of the
\* default config, for which the registry URL is the registry's root.
Names == Packages \cup {""}

\* Nothing can be fetched (no network).
Offline == [p \in Names |-> Unreachable]

\* The JSON object at the registry's root, https://registry.npmjs.org/ : it
\* has no "versions" and no "dist-tags" key, so versions is {} and the
\* latest tag None.
RootDocument == [versions |-> EmptyMap, latest |-> None]

\* Registries for the version selection: the first package has any answer
\* (or none), the others cannot be fetched.
SelectionRegistries ==
    {[p \in Names |-> IF p = PkgOrder[1] THEN f ELSE Unreachable]
     : f \in {Unreachable} \cup {Fetched(i) : i \in PackageInfos}}

\* The answer for a package published in two versions, "1" (the latest tag,
\* without a "dependencies" key) and "2" (with the dependencies `deps`).
Published(deps) ==
    [versions |-> (<<49>> :> [declares |-> FALSE, dependencies |-> <<>>])
                  @@ (<<50>> :> [declares |-> TRUE, dependencies |-> deps]),
     latest |-> Some(<<49>>)]

\* The registry that publishes the packages listed in `items` and cannot
\* deliver the others; under the empty name it answers with its root
\* document, unless `items` lists something there.
RegistryOf(items) ==
    [p \in Names |->
        IF p \in DOMAIN items /\ items[p].kind = "list"
        THEN Fetched(Published(items[p].deps))
        ELSE IF p = "" THEN Fetched(RootDocument)
        ELSE Unreachable]

\* The same registry when the request for its root fails.
RootUnreachable(reg) == [reg EXCEPT ![""] = Unreachable]

\* Registries for the remote builds.
Registries == {RegistryOf(f) : f \in ItemsUpTo(MaxEdges - 1)}

\* Registries for the config runs over a source with the entries `items`.
RegistriesOver(items) == {RegistryOf(items), RootUnreachable(RegistryOf(items))}

\* _fetch_package_info_from_npm: the answer to
\* GET https://registry.npmjs.org/<package_name>.
Fetch(reg, package_name) == reg[package_name]

\* The config file.  A readable one is a JSON object that gives the three
\* keys the model follows; the other keys (the display flags) are not read
\* by the operations modelled here.
ConfigData ==
    [package_name : Packages \cup {""},
     repository_url : Urls,
     repository_mode : Modes \cup {"bogus"}]

Readable(config_data) == [readable |-> TRUE, data |-> config_data]

\* No file at config_path, or one that json.load cannot parse.
Unreadable == [readable |-> FALSE]

\* _validate_config: TRUE when it returns, FALSE when it raises ConfigError.
validate_config(cfg) ==
    /\ cfg.package_name # ""
    /\ cfg.repository_url # ""
    /\ cfg.repository_mode \in Modes
    /\ cfg.repository_mode = "test" => PathExists(cfg.repository_url)
    /\ cfg.repository_mode = "remote" => IsHttpUrl(cfg.repository_url)
    /\ cfg.repository_mode = "graph_file" => PathExists(cfg.repository_url)

\* The runs the model follows.  A run is given by what is stored at the
\* path, what the registry answers, and what the successive calls of
\* load_config find at config_path: one of a set of scripts, each the
\* sequence of the files found by the first call, the second call, ...
\*   local runs:    any test repository with one valid config of test mode,
\*                  any graph file with one valid config of graph_file mode
\*   remote runs:   any registry, one valid config of remote mode
\*   config runs:   a few directories and files at the path and in the
\*                  working directory, the registry that publishes the same
\*                  packages; any config file, or a valid config followed
\*                  by any config file
TestScripts ==
    {<<Readable(c)>> : c \in {d \in ConfigData : validate_config(d)
                                                /\ d.repository_mode = "test"}}

GraphFileScripts ==
    {<<Readable(c)>> : c \in {d \in ConfigData : validate_config(d)
                                                /\ d.repository_mode = "graph_file"}}

RemoteScripts ==
    {<<Readable(c)>> : c \in {d \in ConfigData : validate_config(d)
                                                /\ d.repository_mode = "remote"}}

ConfigFiles == {Unreadable} \cup {Readable(c) : c \in ConfigData}

ConfigScripts ==
    {<<f>> : f \in ConfigFiles}
    \cup {<<Readable(c), f>> : c \in {d \in ConfigData : validate_config(d)
                                          /\ d.package_name = PkgOrder[1]},
                               f \in ConfigFiles}

ConfigItems ==
    {(PkgOrder[1] :> a) @@ (PkgOrder[2] :> b) @@ (PkgOrder[3] :> c)
     : a \in {Listed(<<PkgOrder[2]>>)},
       b \in {Listed(<<PkgOrder[3]>>), Absent, Invalid},
       c \in {Listed(<<PkgOrder[1]>>), Listed(<<>>)}}

\* The ring A -> B -> C -> A, and the same with an entry under the empty
\* name (a package.json directly in the directory, a key "" of the file).
RingItems ==
    (PkgOrder[1] :> Listed(<<PkgOrder[2]>>)) @@ (PkgOrder[2] :> Listed(<<PkgOrder[3]>>))
    @@ (PkgOrder[3] :> Listed(<<PkgOrder[1]>>))

RingItemsWithEmptyName == RingItems @@ ("" :> Listed(<<PkgOrder[2]>>))

\* A working directory with ./package.json and the manifests of two packages.
CwdWithManifests ==
    Directory(("" :> Listed(<<PkgOrder[2]>>)) @@ (PkgOrder[1] :> Listed(<<PkgOrder[2]>>))
              @@ (PkgOrder[2] :> Listed(<<PkgOrder[1]>>)) @@ (PkgOrder[3] :> Absent))

\* The config runs' file systems: what is at the path and what the working
\* directory holds.
ConfigSources ==
    {[source |-> d, working_directory |-> EmptyDirectory]
     : d \in {Directory(f) : f \in ConfigItems} \cup {JsonFile(f) : f \in ConfigItems}
              \cup {Directory(RingItemsWithEmptyName), JsonFile(RingItemsWithEmptyName)}}
    \cup {[source |-> d, working_directory |-> CwdWithManifests]
          : d \in {Directory(RingItems), JsonFile(RingItems)}}

----------------------------------------------------------------------------
VARIABLES
    source,                \* environment: the content stored at the path
    working_directory,     \* environment: the manifests in the working directory
    registry,              \* environment: the registry's answer for each package
    config_files,          \* environment: the sequences of files the coming
                           \* load_config calls can find at config_path
    config,                \* self.config: package_name, repository_url, repository_mode
    pc,                    \* "idle" | "ready" | "config_error" | "bfs" | "dfs"
                           \* | "done" | "failed"
    dependency_graph,      \* self.dependency_graph
    graph_keys,            \* insertion order of self.dependency_graph
    visited_packages,      \* self.visited_packages
    reverse_dependencies,  \* self.reverse_dependencies
    cycles_detected,       \* local of build_dependency_graph_bfs
    file_graph,            \* local of build_dependency_graph_bfs (graph_file mode)
    queue,                 \* deque of _build_graph_from_file_bfs
    stack,                 \* call stack of _build_graph_bfs_recursive
    raised,                \* exception that left build_dependency_graph_bfs
    direct,                \* outcome of the last direct get_direct_dependencies call
    counts,                \* history: per package, times marked / looked up / written
    lookup_result,         \* history: per package, what its lookup returned
    had_graph,             \* history: a failed build began with a filled graph
    edited,                \* the source changed after the last build read it
    reply                  \* what the last call returned, when it was a query

vars == <<source, working_directory, registry, config_files, config, pc, dependency_graph, graph_keys, visited_packages,
          reverse_dependencies, cycles_detected, file_graph, queue, stack,
          raised, direct, counts, lookup_result, had_graph, edited, reply>>

----------------------------------------------------------------------------
(* Pure parts of the adapter and the builder *)

\* The keys of a dict built from a list of names, in insertion order: the
\* first occurrence of a name fixes its place, a repeated name adds nothing.
\* Models {dep: "*" for dep in names} and the keys of a parsed JSON object.
DictKeys(names) ==
    LET firsts == {i \in DOMAIN names : \A j \in 1..(i - 1) : names[j] # names[i]}
    IN  [k \in 1..Cardinality(firsts) |->
            names[CHOOSE i \in firsts : Cardinality({j \in firsts : j <= i}) = k]]

\* The outcome of a call that returns a dependency mapping or raises.
Returned(deps) == [ok |-> TRUE, deps |-> deps, error |-> ""]
Raised(message) == [ok |-> FALSE, deps |-> <<>>, error |-> message]

\* The outcome of a call that returns None: no mapping at all.
ReturnedNone == [ok |-> TRUE, deps |-> <<>>, error |-> "", none |-> TRUE]

IsNone(outcome) == "none" \in DOMAIN outcome

\* _load_graph_from_file: the mapping, or GraphError when the top level is
\* not an object or some value is not a list of strings.
load_graph_from_file(doc) ==
    IF doc.top \in {"missing", "directory"}
    THEN [ok |-> FALSE, graph |-> EmptyMap, error |-> "graph file cannot be read"]
    ELSE IF doc.top # "object"
    THEN [ok |-> FALSE, graph |-> EmptyMap, error |-> "graph file must hold a JSON object"]
    ELSE IF \E p \in DOMAIN doc.items : doc.items[p].kind = "invalid"
    THEN [ok |-> FALSE, graph |-> EmptyMap, error |-> "dependencies must be a list of strings"]
    ELSE [ok |-> TRUE,
          graph |-> [p \in {q \in DOMAIN doc.items : doc.items[q].kind = "list"}
                        |-> doc.items[p].deps],
          error |-> ""]

\* os.path.join(repo_path, package_name, "package.json"), as found under
\* what repo_path holds: a file or a missing path has nothing below it.
Manifest(doc, package_name) ==
    IF doc.top = "directory" /\ package_name \in DOMAIN doc.items
    THEN doc.items[package_name]
    ELSE Absent

\* Mutant: a package without a readable manifest is reported as having no
\* dependencies instead of raising DependencyError.
test_repo_missing_as_empty(package_name, doc) ==
    IF Manifest(doc, package_name).kind = "list"
    THEN Returned(DictKeys(Manifest(doc, package_name).deps))
    ELSE Returned(<<>>)

\* _get_dependencies_from_test_repo
get_dependencies_from_test_repo(package_name, doc) ==
    CASE Manifest(doc, package_name).kind = "absent" ->
            Raised("package.json not found in the test repository")
      [] Manifest(doc, package_name).kind = "invalid" ->
            Raised("package.json parse error")
      [] OTHER -> Returned(DictKeys(Manifest(doc, package_name).deps))

\* The graph_file branch of get_direct_dependencies once the file is loaded.
dependencies_from_loaded_graph(package_name, graph) ==
    IF package_name \in DOMAIN graph
    THEN Returned(DictKeys(graph[package_name]))
    ELSE Returned(<<>>)

\* Python's ordering of str: by code point, a proper prefix first.
RECURSIVE StrLess(_, _)
StrLess(a, b) ==
    IF b = <<>> THEN FALSE
    ELSE IF a = <<>> THEN TRUE
    ELSE IF Head(a) # Head(b) THEN Head(a) < Head(b)
    ELSE StrLess(Tail(a), Tail(b))

\* Mutant: the version strings are sorted ascending (reverse=True forgotten).
SortedAscending(keys) ==
    [i \in 1..Cardinality(keys) |->
        CHOOSE k \in keys : Cardinality({o \in keys : StrLess(o, k)}) = i - 1]

\* sorted(versions.keys(), reverse=True): the key at place i has i - 1
\* greater keys.
SortedDescending(keys) ==
    [i \in 1..Cardinality(keys) |->
        CHOOSE k \in keys : Cardinality({o \in keys : StrLess(k, o)}) = i - 1]

\* version_data.get("dependencies") is truthy: the key is there and its
\* mapping is not empty.
HasDependencies(version_data) ==
    version_data.declares /\ version_data.dependencies # <<>>

\* "latest_version and latest_version in versions": the tag is declared, is
\* not the empty string and is a key of versions.
LatestUsable(package_info) ==
    /\ package_info.latest # None
    /\ package_info.latest[1] # <<>>
    /\ package_info.latest[1] \in DOMAIN package_info.versions

\* _find_version_with_dependencies: Some(version) or None
find_version_with_dependencies(package_info) ==
    LET versions == package_info.versions
        latest_version == package_info.latest
        sorted_versions == SortedDescending(DOMAIN versions)
        with_dependencies ==
            SelectSeq(sorted_versions, LAMBDA v : HasDependencies(versions[v]))
    IN  IF LatestUsable(package_info) /\ HasDependencies(versions[latest_version[1]])
        THEN latest_version
        ELSE IF with_dependencies # <<>> THEN Some(with_dependencies[1])
        ELSE IF LatestUsable(package_info) THEN latest_version
        ELSE IF sorted_versions # <<>> THEN Some(sorted_versions[1])
        ELSE None

\* The remote branch of get_direct_dependencies: the fetch raises
\* DependencyError, or the chosen version's dependencies are returned, or
\* {} when no version (None or the empty string) was chosen.
remote_dependencies(fetched) ==
    IF fetched.kind = "unreachable"
    THEN Raised("network error while fetching the package")
    ELSE LET version_to_use == find_version_with_dependencies(fetched.info)
         IN  IF version_to_use = None \/ version_to_use[1] = <<>>
             THEN Returned(<<>>)
             ELSE Returned(DictKeys(
                      fetched.info.versions[version_to_use[1]].dependencies))

\* get_direct_dependencies: every exception other than DependencyError
\* (here the loader's GraphError) is re-raised as DependencyError; with a
\* repository_mode that is none of the three no branch is taken and the
\* call returns None.
get_direct_dependencies(cfg, doc, cwd, reg, package_name) ==
    IF cfg.repository_mode = "remote"
    THEN remote_dependencies(Fetch(reg, package_name))
    ELSE IF cfg.repository_mode = "test"
    THEN get_dependencies_from_test_repo(package_name, AtUrl(cfg, doc, cwd))
    ELSE IF cfg.repository_mode = "graph_file"
    THEN LET loaded == load_graph_from_file(AtUrl(cfg, doc, cwd))
         IN  IF loaded.ok
             THEN dependencies_from_loaded_graph(package_name, loaded.graph)
             ELSE Raised("unexpected error while getting dependencies")
    ELSE ReturnedNone

\* Mutant: the level is the length of the path, one too many.
ResolvedNodeOneDeeper(dependencies, level) ==
    [dependencies |-> dependencies, level |-> level + 1, error |-> <<>>]

\* The record written when the adapter returned None: its 'dependencies'
\* is None, which no loop can iterate.
NodeOfNone(level) ==
    [dependencies |-> <<>>, level |-> level, error |-> <<>>, none |-> TRUE]

\* Every 'dependencies' of the graph is a mapping.
Iterable(graph) == \A p \in DOMAIN graph : ~IsNone(graph[p])

\* A node record without and with the 'error' key.
ResolvedNode(dependencies, level) ==
    [dependencies |-> dependencies, level |-> level, error |-> <<>>]

\* Mutant: the record of a failed lookup is written without its 'error' key.
ErrorNodeWithoutError(level, message) ==
    [dependencies |-> <<>>, level |-> level, error |-> <<>>]

ErrorNode(level, message) ==
    [dependencies |-> <<>>, level |-> level, error |-> <<message>>]

\* Mutant: the whole path is taken as the cycle, not its suffix.
CycleWholePath(path, package) == path

\* cycle = path[path.index(package):]
CycleOf(path, package) == SubSeq(path, IndexOf(path, package), Len(path))

\* The normalisation loop: "for node in cycle: if node not in
\* normalized_cycle: normalized_cycle.append(node)".
RECURSIVE NormalizeFrom(_, _)
NormalizeFrom(normalized_cycle, cycle) ==
    IF cycle = <<>> THEN normalized_cycle
    ELSE NormalizeFrom(IF Head(cycle) \in Range(normalized_cycle)
                       THEN normalized_cycle
                       ELSE Append(normalized_cycle, Head(cycle)),
                       Tail(cycle))

NormalizeCycle(cycle) == NormalizeFrom(<<>>, cycle)

\* Mutant: the cycle is appended without looking whether it is recorded.
RecordCycleAgain(cycles, package, path) ==
    IF package \in Range(path)
    THEN Append(cycles, NormalizeCycle(CycleOf(path, package)))
    ELSE cycles

\* The visited branch of both traversals: record the cycle when the package
\* is on the path and its normalised cycle is not recorded yet.
RecordCycle(cycles, package, path) ==
    IF package \in Range(path)
    THEN LET normalized_cycle == NormalizeCycle(CycleOf(path, package))
         IN  IF normalized_cycle \in Range(cycles) THEN cycles
             ELSE Append(cycles, normalized_cycle)
    ELSE cycles

\* Mutant: adding a package to the visited set drops the earlier ones.
MarkVisitedAlone(visited, package) == {package}

\* Mutant: the package is never added to the visited set.
MarkVisitedForgotten(visited, package) == visited

\* self.visited_packages.add(package)
MarkVisited(visited, package) == visited \cup {package}

\* Mutant: the dependencies are put at the front of the queue (appendleft).
EnqueueAtFront(q, dep_names, level, current_path) ==
    [i \in 1..Len(dep_names) |->
        [package |-> dep_names[i], level |-> level + 1, path |-> current_path]]
    \o q

\* Mutant: the first dependency of a package is not enqueued.
EnqueueButFirst(q, dep_names, level, current_path) ==
    IF dep_names = <<>> THEN q
    ELSE q \o [i \in 1..(Len(dep_names) - 1) |->
                 [package |-> dep_names[i + 1], level |-> level + 1,
                  path |-> current_path]]

\* Mutant: a dependency is enqueued at its parent's level.
EnqueueSameLevel(q, dep_names, level, current_path) ==
    q \o [i \in 1..Len(dep_names) |->
            [package |-> dep_names[i], level |-> level, path |-> current_path]]

\* for dep_name in file_graph[package]: queue.append((dep_name, level + 1, current_path))
RECURSIVE Enqueue(_, _, _, _)
Enqueue(q, dep_names, level, current_path) ==
    IF dep_names = <<>> THEN q
    ELSE Enqueue(Append(q, [package |-> Head(dep_names), level |-> level + 1,
                            path |-> current_path]),
                 Tail(dep_names), level, current_path)

\* Mutant: only the first dependency of a package is indexed.
ReverseAddFirstOnly(rev, package, deps) ==
    IF deps = <<>> THEN rev
    ELSE LET dep == Head(deps)
             bucket == IF dep \in DOMAIN rev THEN rev[dep] ELSE <<>>
         IN  Put(rev, dep, IF package \in Range(bucket) THEN bucket
                           ELSE Append(bucket, package))

\* One package of _build_reverse_dependencies: append it to the bucket of
\* each of its dependencies, unless it is there already.
RECURSIVE ReverseAdd(_, _, _)
ReverseAdd(rev, package, deps) ==
    IF deps = <<>> THEN rev
    ELSE LET dep == Head(deps)
             bucket == IF dep \in DOMAIN rev THEN rev[dep] ELSE <<>>
         IN  ReverseAdd(Put(rev, dep, IF package \in Range(bucket) THEN bucket
                                      ELSE Append(bucket, package)),
                        package, Tail(deps))

\* _build_reverse_dependencies over the graph in insertion order
RECURSIVE ReverseFrom(_, _, _)
ReverseFrom(rev, keys, graph) ==
    IF keys = <<>> THEN rev
    ELSE ReverseFrom(ReverseAdd(rev, Head(keys), graph[Head(keys)].dependencies),
                     Tail(keys), graph)

build_reverse_dependencies(keys, graph) == ReverseFrom(EmptyMap, keys, graph)

----------------------------------------------------------------------------
(* _find_all_cycles.  `st` is what the nested dfs closes over: the cycles   *)
(* list and the visited set.  Beside them it carries history the code does *)
(* not keep: the number of dfs calls, every path a call received, every    *)
(* cycle as extracted before normalisation, and the length of the path at  *)
(* each node's first visit.                                                *)

FinderStart ==
    [cycles |-> <<>>, visited |-> {}, calls |-> 0, paths |-> {},
     extracted |-> <<>>, depth |-> EmptyMap]

\* The "if node in path" branch of dfs: extract, normalise, append if new.
FinderRecord(st, node, path) ==
    LET cycle == CycleOf(path, node)
        normalized_cycle == NormalizeCycle(cycle)
    IN  [st EXCEPT !.cycles = IF normalized_cycle \in Range(@) THEN @
                              ELSE Append(@, normalized_cycle),
                   !.extracted = Append(@, cycle)]

RECURSIVE dfs(_, _, _, _)
RECURSIVE dfs_neighbors(_, _, _, _)

\* Mutant: the neighbours of a node are explored from the last to the first.
dfs_neighbors_reversed(st, graph, neighbors, path) ==
    IF neighbors = <<>> THEN st
    ELSE dfs_neighbors(dfs(st, graph, neighbors[Len(neighbors)], path), graph,
                       SubSeq(neighbors, 1, Len(neighbors) - 1), path)

\* for neighbor in self.dependency_graph[node]['dependencies']:
\*     dfs(neighbor, path.copy())
dfs_neighbors(st, graph, neighbors, path) ==
    IF neighbors = <<>> THEN st
    ELSE dfs_neighbors(dfs(st, graph, Head(neighbors), path), graph,
                       Tail(neighbors), path)

\* Mutant: the visited test comes first, so a node on the path is skipped.
dfs_visited_first(st, graph, node, path) ==
    LET entered == [st EXCEPT !.calls = @ + 1, !.paths = @ \cup {path}]
    IN  IF node \in st.visited THEN entered
        ELSE LET marked == [entered EXCEPT !.visited = @ \cup {node},
                                           !.depth = Put(@, node, Len(path))]
             IN  IF node \in DOMAIN graph
                 THEN dfs_neighbors(marked, graph, graph[node].dependencies,
                                    Append(path, node))
                 ELSE marked

\* dfs(node, path)
dfs(st, graph, node, path) ==
    LET entered == [st EXCEPT !.calls = @ + 1, !.paths = @ \cup {path}]
    IN  IF node \in Range(path) THEN FinderRecord(entered, node, path)
        ELSE IF node \in st.visited THEN entered
        ELSE LET marked == [entered EXCEPT !.visited = @ \cup {node},
                                           !.depth = Put(@, node, Len(path))]
             IN  IF node \in DOMAIN graph
                 THEN dfs_neighbors(marked, graph, graph[node].dependencies,
                                    Append(path, node))
                 ELSE marked

\* for node in self.dependency_graph: if node not in visited: dfs(node, [])
RECURSIVE FinderFrom(_, _, _)
FinderFrom(st, keys, graph) ==
    IF keys = <<>> THEN st
    ELSE FinderFrom(IF Head(keys) \in st.visited THEN st
                    ELSE dfs(st, graph, Head(keys), <<>>),
                    Tail(keys), graph)

\* _find_all_cycles: the closure's final state; .cycles is what it returns.
find_all_cycles(keys, graph) == FinderFrom(FinderStart, keys, graph)

----------------------------------------------------------------------------
(* generate_graphviz and generate_simple_graphviz.  The DOT text is kept as *)
(* what varies in it: whether it is the empty string, the node declarations *)
(* (package and fillcolor of its style) and the edge declarations           *)
(* (package, dependency), each in the order of its line.                    *)

EmptyText == [empty |-> TRUE, nodes |-> <<>>, edges |-> <<>>]

\* Mutant: the error style is tested before the root style.
NodeStyleErrorFirst(package, info, root_package) ==
    IF info.error # <<>> THEN "lightcoral"
    ELSE IF package = root_package THEN "orange"
    ELSE IF info.dependencies = <<>> THEN "lightgreen"
    ELSE "lightblue"

\* The if/elif chain that picks node_style, by its fillcolor.
NodeStyle(package, info, root_package) ==
    IF package = root_package THEN "orange"
    ELSE IF info.error # <<>> THEN "lightcoral"
    ELSE IF info.dependencies = <<>> THEN "lightgreen"
    ELSE "lightblue"

\* The node loop: one declaration per item of the graph, in its order.
NodeLines(keys, graph, root_package) ==
    [i \in 1..Len(keys) |->
        [package |-> keys[i],
         fillcolor |-> NodeStyle(keys[i], graph[keys[i]], root_package)]]

\* The inner edge loop of generate_graphviz for one package: an edge is
\* appended unless it is in edges_added (the lines so far hold the same).
RECURSIVE EdgeLinesOf(_, _, _)
EdgeLinesOf(lines, package, deps) ==
    IF deps = <<>> THEN lines
    ELSE LET edge == <<package, Head(deps)>>
         IN  EdgeLinesOf(IF edge \in Range(lines) THEN lines ELSE Append(lines, edge),
                         package, Tail(deps))

RECURSIVE EdgeLines(_, _, _)
EdgeLines(lines, keys, graph) ==
    IF keys = <<>> THEN lines
    ELSE EdgeLines(EdgeLinesOf(lines, Head(keys), graph[Head(keys)].dependencies),
                   Tail(keys), graph)

\* generate_graphviz
generate_graphviz(keys, graph, root_package) ==
    IF keys = <<>> THEN EmptyText
    ELSE [empty |-> FALSE,
          nodes |-> NodeLines(keys, graph, root_package),
          edges |-> EdgeLines(<<>>, keys, graph)]

\* The edge loops of generate_simple_graphviz: every pair, nothing skipped.
RECURSIVE SimpleEdgeLines(_, _, _)
SimpleEdgeLines(lines, keys, graph) ==
    IF keys = <<>> THEN lines
    ELSE SimpleEdgeLines(
             lines \o [i \in 1..Len(graph[Head(keys)].dependencies) |->
                          <<Head(keys), graph[Head(keys)].dependencies[i]>>],
             Tail(keys), graph)

\* generate_simple_graphviz
generate_simple_graphviz(keys, graph) ==
    IF keys = <<>> THEN EmptyText
    ELSE [empty |-> FALSE, nodes |-> <<>>,
          edges |-> SimpleEdgeLines(<<>>, keys, graph)]

----------------------------------------------------------------------------
(* State after construction, and the operations *)

DefaultConfig ==
    [package_name |-> "", repository_url |-> "", repository_mode |-> "test"]

NoCall == [called |-> FALSE, package |-> "", result |-> Returned(<<>>)]

\* The last call was not one of the queries (the cycle finder, the exports,
\* the version selection): there is no returned value to look at.
NoReply == [op |-> "none"]

\* The last call was the query `op`: it returned `value`, or it raised
\* TypeError on a 'dependencies' that is None.
Replied(op, value) == [op |-> op, raised |-> "none", value |-> value]
RaisedIn(op) == [op |-> op, raised |-> "TypeError"]

ZeroCounts ==
    [marked |-> [p \in Names |-> 0],
     looked_up |-> [p \in Names |-> 0],
     written |-> [p \in Names |-> 0]]

\* One more marking, lookup and record write of `package`.
Counted(c, package, marks, lookups, writes) ==
    [marked |-> [c.marked EXCEPT ![package] = @ + marks],
     looked_up |-> [c.looked_up EXCEPT ![package] = @ + lookups],
     written |-> [c.written EXCEPT ![package] = @ + writes]]

\* __init__: empty graph, visited set and reverse index, default config.
Constructed ==
    /\ config = DefaultConfig
    /\ pc = "idle"
    /\ dependency_graph = EmptyMap
    /\ graph_keys = <<>>
    /\ visited_packages = {}
    /\ reverse_dependencies = EmptyMap
    /\ cycles_detected = <<>>
    /\ file_graph = EmptyMap
    /\ queue = <<>>
    /\ stack = <<>>
    /\ raised = "none"
    /\ direct = NoCall
    /\ counts = ZeroCounts
    /\ lookup_result = EmptyMap
    /\ had_graph = FALSE
    /\ edited = FALSE
    /\ reply = NoReply

\* The local runs (over a test repository, over a graph file), the remote
\* runs and the config runs.
Init ==
    /\ \/ /\ source \in TestRepositories
          /\ working_directory = EmptyDirectory
          /\ registry = Offline
          /\ config_files = TestScripts
       \/ /\ source \in GraphFiles
          /\ working_directory = EmptyDirectory
          /\ registry = Offline
          /\ config_files = GraphFileScripts
       \/ /\ source = MissingDoc
          /\ working_directory = EmptyDirectory
          /\ registry \in Registries
          /\ config_files = RemoteScripts
       \/ /\ \E fs \in ConfigSources :
                /\ source = fs.source
                /\ working_directory = fs.working_directory
          /\ registry \in RegistriesOver(source.items)
          /\ config_files = ConfigScripts
    /\ Constructed

\* load_config.  Without a readable file it raises ConfigError and the
\* config stays.  With one, self.config.update(config_data) comes first and
\* _validate_config second: when the validation raises ConfigError the
\* config holds the file's values all the same.  The graph of an earlier
\* build is not touched.
LoadConfig ==
    /\ pc \notin {"bfs", "dfs"}
    /\ \E file \in {Head(s) : s \in config_files} :
          /\ IF ~file.readable
             THEN /\ config' = config
                  /\ pc' = "config_error"
             ELSE /\ config' = file.data
                  /\ pc' = IF validate_config(file.data) THEN "ready"
                           ELSE "config_error"
          /\ config_files' = {Tail(s) : s \in {t \in config_files :
                                                  Head(t) = file /\ Len(t) > 1}}
    /\ direct' = NoCall
    /\ reply' = NoReply
    /\ UNCHANGED <<source, working_directory, registry, dependency_graph,
                   graph_keys, visited_packages, reverse_dependencies,
                   cycles_detected, file_graph, queue, stack, raised, counts,
                   lookup_result, had_graph, edited>>

\* display_direct_dependencies: get_direct_dependencies() called without an
\* argument on the configured instance, so for the configured root package.
GetDirect ==
    /\ pc \in {"ready", "config_error"}
    /\ ~direct.called
    /\ direct' = [called |-> TRUE, package |-> config.package_name,
                  result |-> get_direct_dependencies(config, source,
                                                     working_directory, registry,
                                                     config.package_name)]
    /\ reply' = NoReply
    /\ UNCHANGED <<working_directory, registry, config_files, source, config, pc, dependency_graph, graph_keys,
                   visited_packages, reverse_dependencies, cycles_detected,
                   file_graph, queue, stack, raised, counts, lookup_result,
                   had_graph, edited>>

\* The environment between two builds: one manifest is removed (test), or one
\* value of the document is damaged or the whole document is replaced by a
\* non-object (graph_file).
EditSource ==
    /\ pc = "done"
    /\ ~edited
    /\ edited' = TRUE
    /\ \/ \E p \in Packages :
             /\ config.repository_mode = "test"
             /\ source.top = "directory"
             /\ source.items[p] # Absent
             /\ source' = [source EXCEPT !.items[p] = Absent]
       \/ \E p \in Packages :
             /\ config.repository_mode = "graph_file"
             /\ source.top = "object"
             /\ source.items[p] # Invalid
             /\ source' = [source EXCEPT !.items[p] = Invalid]
       \/ /\ config.repository_mode = "graph_file"
          /\ source.top = "object"
          /\ source' = NotObjectDoc
    /\ reply' = NoReply
    /\ UNCHANGED <<working_directory, registry, config_files, config, pc, dependency_graph,
                   graph_keys, visited_packages, reverse_dependencies,
                   cycles_detected, file_graph, queue, stack, raised, direct,
                   counts, lookup_result, had_graph>>

\* Mutant: the containers are not emptied when a build starts.
ResetSkipped ==
    UNCHANGED <<dependency_graph, graph_keys, visited_packages,
                reverse_dependencies, cycles_detected>>

\* build_dependency_graph_bfs, the initialisation block: the three containers
\* and the cycle list start empty.
ResetState ==
    /\ dependency_graph' = EmptyMap
    /\ graph_keys' = <<>>
    /\ visited_packages' = {}
    /\ reverse_dependencies' = EmptyMap
    /\ cycles_detected' = <<>>

\* What every start of a build does besides the branch on the mode.
BuildEntry ==
    /\ pc \in {"ready", "config_error", "done", "failed"}
    /\ ResetState
    /\ direct' = NoCall
    /\ counts' = ZeroCounts
    /\ lookup_result' = EmptyMap
    /\ edited' = FALSE
    /\ reply' = NoReply
    /\ UNCHANGED <<working_directory, registry, config_files, source, config>>

\* graph_file mode, the file loads: the queue starts with (root, 0, []).
BuildStartFile ==
    /\ BuildEntry
    /\ config.repository_mode = "graph_file"
    /\ load_graph_from_file(AtUrl(config, source, working_directory)).ok
    /\ file_graph' = load_graph_from_file(AtUrl(config, source, working_directory)).graph
    /\ queue' = <<[package |-> config.package_name, level |-> 0, path |-> <<>>]>>
    /\ pc' = "bfs"
    /\ raised' = "none"
    /\ had_graph' = FALSE
    /\ stack' = <<>>

\* graph_file mode, _load_graph_from_file raises GraphError: it leaves
\* build_dependency_graph_bfs after the reset.
BuildLoadFails ==
    /\ BuildEntry
    /\ config.repository_mode = "graph_file"
    /\ ~load_graph_from_file(AtUrl(config, source, working_directory)).ok
    /\ pc' = "failed"
    /\ raised' = "GraphError"
    /\ had_graph' = (DOMAIN dependency_graph # {})
    /\ file_graph' = EmptyMap
    /\ queue' = <<>>
    /\ stack' = <<>>

\* The frame standing for build_dependency_graph_bfs itself, whose one
\* call is _build_graph_bfs_recursive(root_package, [], cycles_detected).
RootFrame(root) == [package |-> "", path |-> <<>>, deps |-> <<root>>, i |-> 1]

\* Every other mode: the recursion starts at the root with an empty path.
BuildStartPerCall ==
    /\ BuildEntry
    /\ config.repository_mode # "graph_file"
    /\ stack' = <<RootFrame(config.package_name)>>
    /\ pc' = "dfs"
    /\ raised' = "none"
    /\ had_graph' = FALSE
    /\ file_graph' = EmptyMap
    /\ queue' = <<>>

----------------------------------------------------------------------------
(* _build_graph_from_file_bfs: one action per iteration of "while queue" *)

\* self.dependency_graph[package] = node, with the dict's insertion order
InsertNode(package, node) ==
    /\ dependency_graph' = Put(dependency_graph, package, node)
    /\ graph_keys' = IF package \in DOMAIN dependency_graph THEN graph_keys
                     ELSE Append(graph_keys, package)

\* The dequeued package is already visited: cycle check, then continue.
BfsRevisit ==
    /\ pc = "bfs"
    /\ queue # <<>>
    /\ LET package == Head(queue).package
           path == Head(queue).path
       IN  /\ package \in visited_packages
           /\ cycles_detected' = RecordCycle(cycles_detected, package, path)
    /\ queue' = Tail(queue)
    /\ reply' = NoReply
    /\ UNCHANGED <<working_directory, registry, config_files, source, config, pc, dependency_graph, graph_keys,
                   visited_packages, reverse_dependencies, file_graph, stack,
                   raised, direct, counts, lookup_result, had_graph, edited>>

\* First visit of a package that is a key of file_graph: its record is
\* written at the dequeued level and its dependencies are enqueued.
BfsExpand ==
    /\ pc = "bfs"
    /\ queue # <<>>
    /\ LET package == Head(queue).package
           level == Head(queue).level
           current_path == Append(Head(queue).path, package)
       IN  /\ package \notin visited_packages
           /\ package \in DOMAIN file_graph
           /\ visited_packages' = MarkVisited(visited_packages, package)
           /\ InsertNode(package, ResolvedNode(DictKeys(file_graph[package]), level))
           /\ queue' = Enqueue(Tail(queue), file_graph[package], level, current_path)
           /\ counts' = Counted(counts, package, 1, 1, 1)
           /\ lookup_result' = Put(lookup_result, package,
                                   Returned(DictKeys(file_graph[package])))
    /\ reply' = NoReply
    /\ UNCHANGED <<working_directory, registry, config_files, source, config, pc, reverse_dependencies, cycles_detected,
                   file_graph, stack, raised, direct, had_graph, edited>>

\* First visit of a package that is no key of file_graph: an error record,
\* nothing enqueued.
BfsMissing ==
    /\ pc = "bfs"
    /\ queue # <<>>
    /\ LET package == Head(queue).package
           level == Head(queue).level
       IN  /\ package \notin visited_packages
           /\ package \notin DOMAIN file_graph
           /\ visited_packages' = MarkVisited(visited_packages, package)
           /\ InsertNode(package, ErrorNode(level, "package not found in the graph"))
           /\ counts' = Counted(counts, package, 1, 1, 1)
           /\ lookup_result' = Put(lookup_result, package,
                                   Raised("package not found in the graph"))
    /\ queue' = Tail(queue)
    /\ reply' = NoReply
    /\ UNCHANGED <<working_directory, registry, config_files, source, config, pc, reverse_dependencies, cycles_detected,
                   file_graph, stack, raised, direct, had_graph, edited>>

----------------------------------------------------------------------------
(* _build_graph_bfs_recursive: the top frame's "for dep_name in ..." loop   *)
(* makes the next call, or the frame returns.  A frame holds the package,  *)
(* its current_path, the keys it iterates and the position in them.        *)

Top == stack[Len(stack)]

\* The call the top frame is about to make.
Calling == Len(stack) > 0 /\ Top.i <= Len(Top.deps)

Callee == Top.deps[Top.i]

\* The callee returned at once: the caller's loop moves on.
Advanced == [stack EXCEPT ![Len(stack)].i = @ + 1]

\* The callee is already visited: cycle check against the caller's path.
DfsRevisit ==
    /\ pc = "dfs"
    /\ Calling
    /\ Callee \in visited_packages
    /\ cycles_detected' = RecordCycle(cycles_detected, Callee, Top.path)
    /\ stack' = Advanced
    /\ reply' = NoReply
    /\ UNCHANGED <<working_directory, registry, config_files, source, config, pc, dependency_graph, graph_keys,
                   visited_packages, reverse_dependencies, file_graph, queue,
                   raised, direct, counts, lookup_result, had_graph, edited>>

\* First visit, the adapter returns: the record is written and the callee's
\* own loop starts over the returned keys.
DfsExpand ==
    /\ pc = "dfs"
    /\ Calling
    /\ Callee \notin visited_packages
    /\ \E got \in {get_direct_dependencies(config, source, working_directory,
                                             registry, Callee)} :
       LET package == Callee
           current_path == Append(Top.path, package)
       IN  /\ got.ok
           /\ ~IsNone(got)
           /\ visited_packages' = MarkVisited(visited_packages, package)
           /\ InsertNode(package, ResolvedNode(got.deps, Len(current_path) - 1))
           /\ stack' = Append(stack, [package |-> package, path |-> current_path,
                                      deps |-> got.deps, i |-> 1])
           /\ counts' = Counted(counts, package, 1, 1, 1)
           /\ lookup_result' = Put(lookup_result, package, got)
    /\ reply' = NoReply
    /\ UNCHANGED <<working_directory, registry, config_files, source, config, pc, reverse_dependencies, cycles_detected,
                   file_graph, queue, raised, direct, had_graph, edited>>

\* First visit, the adapter raises DependencyError: the except clause writes
\* the error record and the call returns.
DfsFail ==
    /\ pc = "dfs"
    /\ Calling
    /\ Callee \notin visited_packages
    /\ \E got \in {get_direct_dependencies(config, source, working_directory,
                                             registry, Callee)} :
       LET package == Callee
           current_path == Append(Top.path, package)
       IN  /\ ~got.ok
           /\ visited_packages' = MarkVisited(visited_packages, package)
           /\ InsertNode(package, ErrorNode(Len(current_path) - 1, got.error))
           /\ counts' = Counted(counts, package, 1, 1, 1)
           /\ lookup_result' = Put(lookup_result, package, got)
    /\ stack' = Advanced
    /\ reply' = NoReply
    /\ UNCHANGED <<working_directory, registry, config_files, source, config, pc, reverse_dependencies, cycles_detected,
                   file_graph, queue, raised, direct, had_graph, edited>>

\* First visit, the adapter returns None (a repository_mode that is none of
\* the three): the record is written with it, then dependencies.keys()
\* raises AttributeError, which no except clause of the recursion or of
\* build_dependency_graph_bfs catches; _build_reverse_dependencies is not
\* reached.
DfsNone ==
    /\ pc = "dfs"
    /\ Calling
    /\ Callee \notin visited_packages
    /\ \E got \in {get_direct_dependencies(config, source, working_directory,
                                             registry, Callee)} :
       LET package == Callee
           current_path == Append(Top.path, package)
       IN  /\ IsNone(got)
           /\ visited_packages' = MarkVisited(visited_packages, package)
           /\ InsertNode(package, NodeOfNone(Len(current_path) - 1))
           /\ counts' = Counted(counts, package, 1, 1, 1)
           /\ lookup_result' = Put(lookup_result, package, got)
    /\ stack' = <<>>
    /\ pc' = "failed"
    /\ raised' = "AttributeError"
    /\ reply' = NoReply
    /\ UNCHANGED <<working_directory, registry, config_files, source, config,
                   reverse_dependencies, cycles_detected, file_graph, queue,
                   direct, had_graph, edited>>

\* The loop of a call is exhausted: it returns to its caller's loop.
DfsReturn ==
    /\ pc = "dfs"
    /\ Len(stack) > 1
    /\ ~Calling
    /\ stack' = [SubSeq(stack, 1, Len(stack) - 1) EXCEPT ![Len(stack) - 1].i = @ + 1]
    /\ reply' = NoReply
    /\ UNCHANGED <<working_directory, registry, config_files, source, config, pc, dependency_graph, graph_keys,
                   visited_packages, reverse_dependencies, cycles_detected,
                   file_graph, queue, raised, direct, counts, lookup_result,
                   had_graph, edited>>

----------------------------------------------------------------------------
\* The traversal is over (empty queue, or the root call returned):
\* _build_reverse_dependencies runs and the build returns the graph.
Finish ==
    /\ \/ pc = "bfs" /\ queue = <<>>
       \/ pc = "dfs" /\ Len(stack) = 1 /\ ~Calling
    /\ reverse_dependencies' = build_reverse_dependencies(graph_keys, dependency_graph)
    /\ stack' = <<>>
    /\ pc' = "done"
    /\ reply' = NoReply
    /\ UNCHANGED <<working_directory, registry, config_files, source, config, dependency_graph, graph_keys,
                   visited_packages, cycles_detected, file_graph, queue,
                   raised, direct, counts, lookup_result, had_graph, edited>>

----------------------------------------------------------------------------
(* The queries: methods that read the instance and change nothing in it.   *)
(* They are explored on an instance as constructed, after a build that     *)
(* returned and after one that raised, before the environment's next edit  *)
(* (they do not read the source), and on the graph an earlier build left   *)
(* when load_config has been called since (on an empty graph they return   *)
(* before they read anything, as on the instance as constructed).          *)

Queryable ==
    /\ pc \notin {"bfs", "dfs"}
    /\ ~edited
    /\ pc \in {"ready", "config_error"} => graph_keys # <<>>

QueryFrame ==
    UNCHANGED <<working_directory, registry, config_files, source, config, pc, dependency_graph,
                graph_keys, visited_packages, reverse_dependencies,
                cycles_detected, file_graph, queue, stack, raised, direct,
                counts, lookup_result, had_graph, edited>>

\* _find_all_cycles()
FindAllCycles ==
    /\ Queryable
    /\ reply' = IF Iterable(dependency_graph)
                THEN Replied("find_all_cycles",
                             find_all_cycles(graph_keys, dependency_graph))
                ELSE RaisedIn("find_all_cycles")
    /\ QueryFrame

\* generate_graphviz()
GenerateGraphviz ==
    /\ Queryable
    /\ reply' = IF Iterable(dependency_graph)
                THEN Replied("generate_graphviz",
                             generate_graphviz(graph_keys, dependency_graph,
                                               config.package_name))
                ELSE RaisedIn("generate_graphviz")
    /\ QueryFrame

\* generate_simple_graphviz()
GenerateSimpleGraphviz ==
    /\ Queryable
    /\ reply' = IF Iterable(dependency_graph)
                THEN Replied("generate_simple_graphviz",
                             generate_simple_graphviz(graph_keys, dependency_graph))
                ELSE RaisedIn("generate_simple_graphviz")
    /\ QueryFrame

\* _find_version_with_dependencies(package_info), on the registry's answer
\* for the configured package.
FindVersion ==
    /\ pc = "ready"
    /\ config.repository_mode = "remote"
    /\ Fetch(registry, config.package_name).kind = "info"
    /\ reply' = [op |-> "find_version",
                 raised |-> "none",
                 info |-> Fetch(registry, config.package_name).info,
                 value |-> find_version_with_dependencies(
                               Fetch(registry, config.package_name).info)]
    /\ QueryFrame

Next ==
    \/ LoadConfig
    \/ GetDirect
    \/ EditSource
    \/ BuildStartFile
    \/ BuildLoadFails
    \/ BuildStartPerCall
    \/ BfsRevisit
    \/ BfsExpand
    \/ BfsMissing
    \/ DfsRevisit
    \/ DfsExpand
    \/ DfsFail
    \/ DfsNone
    \/ DfsReturn
    \/ Finish
    \/ FindAllCycles
    \/ GenerateGraphviz
    \/ GenerateSimpleGraphviz

Spec == Init /\ [][Next]_vars

\* A step of a running build.  build_dependency_graph_bfs is one sequential
\* call: once started, its loop or recursion takes its next step.
BuildStep ==
    \/ BfsRevisit
    \/ BfsExpand
    \/ BfsMissing
    \/ DfsRevisit
    \/ DfsExpand
    \/ DfsFail
    \/ DfsNone
    \/ DfsReturn
    \/ Finish

\* The main flow: load_config, then build_dependency_graph_bfs, which runs to
\* its end (and may be called again).
BuildNext ==
    \/ LoadConfig
    \/ BuildStartFile
    \/ BuildLoadFails
    \/ BuildStartPerCall
    \/ BuildStep

FairSpec == Init /\ [][BuildNext]_vars /\ WF_vars(BuildStep)

----------------------------------------------------------------------------
(* Remote mode against a registry that knows one package: the version     *)
(* selection, the direct lookup and the build                             *)

RegistryInit ==
    /\ source = MissingDoc
    /\ working_directory = EmptyDirectory
    /\ registry \in SelectionRegistries
    /\ config_files = {s \in RemoteScripts : s[1].data.package_name = PkgOrder[1]}
    /\ Constructed

RegistryNext ==
    \/ LoadConfig
    \/ GetDirect
    \/ FindVersion
    \/ BuildStartPerCall
    \/ DfsRevisit
    \/ DfsExpand
    \/ DfsFail
    \/ DfsReturn
    \/ Finish
    \/ FindAllCycles
    \/ GenerateGraphviz
    \/ GenerateSimpleGraphviz

RegistrySpec == RegistryInit /\ [][RegistryNext]_vars

----------------------------------------------------------------------------
(* Properties *)

Root == config.package_name

Mode == config.repository_mode

\* The dependency names of a node of the built graph.
DepsOf(p) == Range(dependency_graph[p].dependencies)

\* The packages reachable from the set `from` along edges of the built graph.
RECURSIVE GraphReach(_, _)
GraphReach(from, fuel) ==
    LET more == from \cup UNION {DepsOf(p) : p \in from \cap DOMAIN dependency_graph}
    IN  IF fuel = 0 \/ more = from THEN from ELSE GraphReach(more, fuel - 1)

\* p has a path of at least one edge back to itself in the built graph.
OnGraphCycle(p) ==
    p \in DOMAIN dependency_graph /\ p \in GraphReach(DepsOf(p), Cardinality(Names))

\* C1: after a build completes, p is in reverse_dependencies[d] exactly when
\* d is a key of dependency_graph[p]['dependencies']; there is no bucket for
\* a name nobody depends on and no bucket holds a package twice.
C1_ReverseIndexIsExactInverse ==
    pc = "done" =>
        /\ \A p, d \in Names :
              (d \in DOMAIN reverse_dependencies /\ p \in Range(reverse_dependencies[d]))
              <=> (p \in DOMAIN dependency_graph /\ d \in DepsOf(p))
        /\ DOMAIN reverse_dependencies \subseteq Names
        /\ \A d \in DOMAIN reverse_dependencies :
              /\ reverse_dependencies[d] # <<>>
              /\ IsDistinct(reverse_dependencies[d])
              /\ Range(reverse_dependencies[d]) \subseteq Names

\* A completed build in which one package has two dependents, another node
\* has two dependencies and some node has no bucket.
C1_Witness ==
    /\ pc = "done"
    /\ \E d \in DOMAIN reverse_dependencies : Len(reverse_dependencies[d]) = 2
    /\ \E p \in DOMAIN dependency_graph : Cardinality(DepsOf(p)) = 2
    /\ \E p \in DOMAIN dependency_graph : p \notin DOMAIN reverse_dependencies

\* C2: when a build completes, in either mode, every name that is a
\* dependency key of some node is itself a key of the dependency graph.
C2_GraphIsClosed ==
    pc = "done" =>
        \A p \in DOMAIN dependency_graph : DepsOf(p) \subseteq DOMAIN dependency_graph

\* A completed build whose graph has a resolved node with two dependencies,
\* one of them an error node.
C2_Witness ==
    /\ pc = "done"
    /\ \E p, d \in DOMAIN dependency_graph :
          /\ Cardinality(DepsOf(p)) = 2
          /\ d \in DepsOf(p)
          /\ dependency_graph[d].error # <<>>

\* Nothing is marked or looked up twice, and exactly the keys of the graph
\* have had their record written, once.
VisitedOnce ==
    \A p \in Names :
        /\ counts.marked[p] <= 1
        /\ counts.looked_up[p] <= 1
        /\ counts.written[p] = (IF p \in DOMAIN dependency_graph THEN 1 ELSE 0)

\* A step of a running build leaves every record already in the graph as it is.
RecordsKept ==
    pc \in {"bfs", "dfs"} =>
        \A p \in DOMAIN dependency_graph :
            /\ p \in DOMAIN dependency_graph'
            /\ dependency_graph'[p] = dependency_graph[p]

\* C3: during one build each package is marked visited and looked up at most
\* once and its record is written exactly once; no later step of the
\* traversal, re-encounters included, changes its dependencies, level or error.
C3_RecordWrittenOnce == [](VisitedOnce) /\ [][RecordsKept]_vars

\* A package already in the graph is met again (a second queue entry or a
\* second call for it) while the build is running.
C3_Witness ==
    \/ /\ pc = "bfs"
       /\ queue # <<>>
       /\ Head(queue).package \in DOMAIN dependency_graph
       /\ Head(queue).package \in Range(Head(queue).path)
    \/ /\ pc = "dfs"
       /\ Calling
       /\ Callee \in DOMAIN dependency_graph
       /\ Callee \notin Range(Top.path)

\* c is a simple cycle of the built graph: distinct names, each depending
\* on the next and the last on the first.
IsSimpleCycle(c) ==
    /\ c # <<>>
    /\ IsDistinct(c)
    /\ Range(c) \subseteq DOMAIN dependency_graph
    /\ \A i \in 1..Len(c) : c[(i % Len(c)) + 1] \in DepsOf(c[i])

\* C4: every cycle the builder records, in either mode, is a simple cycle of
\* the built graph; so a build whose graph has no cycle records none.
C4_RecordedCyclesAreGenuine ==
    /\ \A k \in 1..Len(cycles_detected) : IsSimpleCycle(cycles_detected[k])
    /\ (\A p \in DOMAIN dependency_graph : ~OnGraphCycle(p)) => cycles_detected = <<>>

\* A recorded cycle of three packages, and one that starts below the root.
C4_Witness ==
    /\ pc = "done"
    /\ \E k \in 1..Len(cycles_detected) :
          \/ Len(cycles_detected[k]) = 3
          \/ Len(cycles_detected[k]) = 2 /\ Root \notin Range(cycles_detected[k])

\* C5: in adjacency-file mode, whenever the completed dependency graph
\* contains a directed cycle, the builder's list of detected cycles is
\* non-empty.
C5_CycleInGraphIsDetected ==
    (pc = "done" /\ Mode = "graph_file"
     /\ \E p \in DOMAIN dependency_graph : OnGraphCycle(p))
        => cycles_detected # <<>>

\* The rings over the packages: 1 to 3 distinct names in some order.
Rings ==
    {r \in UNION {[1..n -> Packages] : n \in 1..Cardinality(Packages)} : IsDistinct(r)}

RingNext(ring, i) == ring[(i % Len(ring)) + 1]

\* The adjacency mapping that is exactly the ring: each package lists the next.
RingGraph(ring) ==
    [p \in Range(ring) |-> <<RingNext(ring, IndexOf(ring, p))>>]

\* C6: for an adjacency source that is a single directed ring starting at the
\* root, the build reports exactly one cycle, the ring in order from the
\* root, and the graph holds exactly the ring's packages, inserted in ring
\* order with levels 0, 1, ..., n-1, each depending only on the next and
\* none with an error.
C6_RingBuild ==
    \A ring \in Rings :
        (pc = "done" /\ Mode = "graph_file" /\ Root = ring[1]
         /\ file_graph = RingGraph(ring))
        => /\ cycles_detected = <<ring>>
           /\ DOMAIN dependency_graph = Range(ring)
           /\ graph_keys = ring
           /\ \A i \in 1..Len(ring) :
                 dependency_graph[ring[i]] =
                     [dependencies |-> <<RingNext(ring, i)>>, level |-> i - 1,
                      error |-> <<>>]

\* A completed build over the ring of all three packages.
C6_Witness ==
    /\ pc = "done"
    /\ Mode = "graph_file"
    /\ \E ring \in Rings :
          /\ Len(ring) = 3
          /\ Root = ring[1]
          /\ file_graph = RingGraph(ring)
          /\ cycles_detected = <<ring>>

\* The packages reachable from the root through packages whose lookup
\* succeeded, by the lookups the build made.
RECURSIVE ResolvedReach(_, _)
ResolvedReach(from, fuel) ==
    LET more == from \cup UNION {Range(lookup_result[p].deps)
                                 : p \in from \cap DOMAIN lookup_result}
    IN  IF fuel = 0 \/ more = from THEN from ELSE ResolvedReach(more, fuel - 1)

\* In a per-call mode, the package has something to read: a manifest in the
\* test repository, an answer in the registry.
HasManifest(p) ==
    IF Mode = "remote" THEN Fetch(registry, p).kind = "info"
    ELSE Manifest(AtUrl(config, source, working_directory), p).kind = "list"

\* The dependency names declared there, each once, in their order; an
\* answer of the registry without versions declares none.
Declared(p) ==
    IF Mode = "remote"
    THEN IF <<50>> \in DOMAIN Fetch(registry, p).info.versions
         THEN DictKeys(Fetch(registry, p).info.versions[<<50>>].dependencies)
         ELSE <<>>
    ELSE DictKeys(Manifest(AtUrl(config, source, working_directory), p).deps)

\* C7: in per-call modes a DependencyError of the adapter for a package does
\* not leave the build: the package gets a record with an empty dependency
\* mapping and a non-empty error string, no call is made below it, and every
\* package reachable from the root through resolved packages has its record.
C7_LookupFailureAbsorbed ==
    Mode \in {"test", "remote"} =>
        /\ pc # "failed"
        /\ pc \in {"dfs", "done"} => raised = "none"
        /\ pc = "dfs" =>
              /\ \A p \in DOMAIN dependency_graph :
                    IF HasManifest(p)
                    THEN /\ dependency_graph[p].error = <<>>
                         /\ dependency_graph[p].dependencies = Declared(p)
                    ELSE /\ dependency_graph[p].dependencies = <<>>
                         /\ Len(dependency_graph[p].error) = 1
                         /\ dependency_graph[p].error[1] # ""
              /\ \A k \in 2..Len(stack) : HasManifest(stack[k].package)
              /\ \A p \in DOMAIN lookup_result :
                    lookup_result[p]
                        = get_direct_dependencies(config, source,
                                                  working_directory, registry, p)
        /\ pc = "done" =>
              /\ DOMAIN dependency_graph
                     = ResolvedReach({Root}, Cardinality(Names))
              /\ \A p \in DOMAIN dependency_graph :
                    /\ p \in DOMAIN lookup_result
                    /\ dependency_graph[p].dependencies = lookup_result[p].deps
                    /\ lookup_result[p].ok <=> dependency_graph[p].error = <<>>

\* A completed per-call build in which one dependency of the root failed and
\* another one was resolved after it.
C7_Witness ==
    /\ pc = "done"
    /\ Mode = "test"
    /\ Len(dependency_graph[Root].dependencies) = 2
    /\ dependency_graph[dependency_graph[Root].dependencies[1]].error # <<>>
    /\ dependency_graph[dependency_graph[Root].dependencies[2]].error = <<>>

\* C8: in adjacency-file mode every package the traversal reaches that is no
\* top-level key of the loaded mapping gets a record with an error and an
\* empty dependency mapping and enqueues nothing; every reached package that
\* is a top-level key gets a record without an error.
C8_AbsentKeyIsErrorNode ==
    (Mode = "graph_file" /\ pc \in {"bfs", "done"}) =>
        /\ visited_packages = DOMAIN dependency_graph
        /\ \A p \in DOMAIN dependency_graph :
              IF p \in DOMAIN file_graph
              THEN /\ dependency_graph[p].error = <<>>
                   /\ dependency_graph[p].dependencies = DictKeys(file_graph[p])
              ELSE /\ dependency_graph[p].error # <<>>
                   /\ dependency_graph[p].dependencies = <<>>
        /\ \A k \in 1..Len(queue) :
              queue[k].path # <<>> =>
                  queue[k].path[Len(queue[k].path)] \in DOMAIN file_graph

\* A completed adjacency-file build with an error node at level 1 or deeper
\* beside a resolved node.
C8_Witness ==
    /\ pc = "done"
    /\ Mode = "graph_file"
    /\ \E p, q \in DOMAIN dependency_graph :
          /\ p \notin DOMAIN file_graph
          /\ dependency_graph[p].level >= 1
          /\ q # Root
          /\ q \in DOMAIN file_graph

\* C9: when the adjacency file fails structural validation the build raises
\* GraphError and leaves the dependency graph, the visited set and the
\* reverse index empty, also after an earlier build had filled them; a build
\* over such a file never starts its traversal.
C9_LoadFailureLeavesNothing ==
    /\ (pc = "failed" /\ Mode = "graph_file") =>
          /\ raised = "GraphError"
          /\ ~load_graph_from_file(AtUrl(config, source, working_directory)).ok
          /\ DOMAIN dependency_graph = {}
          /\ graph_keys = <<>>
          /\ visited_packages = {}
          /\ DOMAIN reverse_dependencies = {}
    /\ (pc = "bfs" /\ Mode = "graph_file") =>
          load_graph_from_file(AtUrl(config, source, working_directory)).ok

\* A failed build that began on an instance holding an earlier build's graph.
C9_Witness ==
    /\ pc = "failed"
    /\ Mode = "graph_file"
    /\ had_graph
    /\ \E p \in Packages : source.top = "object" /\ source.items[p].kind = "invalid"

\* The lookup of `package` has nothing to read in the source.
LookupFails(cfg, doc, cwd, reg, package) ==
    CASE cfg.repository_mode = "graph_file" ->
            \/ ~load_graph_from_file(AtUrl(cfg, doc, cwd)).ok
            \/ package \notin DOMAIN AtUrl(cfg, doc, cwd).items
            \/ AtUrl(cfg, doc, cwd).items[package].kind # "list"
      [] cfg.repository_mode = "test" ->
            Manifest(AtUrl(cfg, doc, cwd), package).kind # "list"
      [] cfg.repository_mode = "remote" -> Fetch(reg, package).kind # "info"
      [] OTHER -> FALSE

\* C10: get_direct_dependencies fails with DependencyError on every lookup
\* failure, including in adjacency-file mode a package that is absent from
\* the adjacency mapping; it never reports such a package as having an empty
\* dependency mapping.
C10_DirectLookupRaisesOnFailure ==
    (direct.called /\ LookupFails(config, source, working_directory, registry,
                                  direct.package))
        => ~direct.result.ok

----------------------------------------------------------------------------
(* The cycle finder *)

\* r lists the cycle c from another of its members.
IsRotation(r, c) ==
    /\ Len(r) = Len(c)
    /\ \E k \in 0..(Len(c) - 1) :
          \A i \in 1..Len(c) : r[i] = c[((i - 1 + k) % Len(c)) + 1]

\* The last call was _find_all_cycles and this is the list it returned.
FinderCalled == reply.op = "find_all_cycles" /\ reply.raised = "none"

Found == reply.value.cycles

\* Every node of the graph is reachable from its first key.
ReachableFromFirstKey ==
    /\ graph_keys # <<>>
    /\ DOMAIN dependency_graph
           \subseteq GraphReach({graph_keys[1]}, Cardinality(Names))

\* C11: for a built graph all of whose nodes are reachable from its first
\* key, every simple cycle of the graph is in the result of _find_all_cycles,
\* as the sequence of its nodes in some rotation.
C11_FinderFindsEverySimpleCycle ==
    (pc = "done" /\ FinderCalled /\ ReachableFromFirstKey) =>
        \A c \in Rings :
            IsSimpleCycle(c) => \E k \in 1..Len(Found) : IsRotation(Found[k], c)

----------------------------------------------------------------------------
(* Version selection *)

VersionCalled == reply.op = "find_version"

\* The version strings of the answer whose dependency mapping is not empty.
WithDependencies(package_info) ==
    {v \in DOMAIN package_info.versions : HasDependencies(package_info.versions[v])}

\* The lexicographically greatest and least of a non-empty set of strings.
Greatest(S) == CHOOSE v \in S : \A o \in S : o = v \/ StrLess(o, v)

Least(S) == CHOOSE v \in S : \A o \in S : o = v \/ StrLess(v, o)

\* The declared latest version is one of the known versions.
LatestKnown(package_info) ==
    /\ package_info.latest # None
    /\ package_info.latest[1] \in DOMAIN package_info.versions

\* C12 as stated: _find_version_with_dependencies returns the declared latest
\* version when it has a non-empty dependency mapping; otherwise the first
\* version with a non-empty dependency mapping in descending lexicographic
\* order; and when no version has dependencies, latest if it exists, else the
\* lexicographically first version, else no version.
C12_VersionSelectionAsStated ==
    VersionCalled =>
        LET info == reply.info
        IN  reply.value =
                IF LatestKnown(info) /\ info.latest[1] \in WithDependencies(info)
                THEN info.latest
                ELSE IF WithDependencies(info) # {}
                THEN Some(Greatest(WithDependencies(info)))
                ELSE IF LatestKnown(info) THEN info.latest
                ELSE IF DOMAIN info.versions # {} THEN Some(Least(DOMAIN info.versions))
                ELSE None

\* The declared latest version counts: it is one of the known versions and
\* not the empty string.
LatestCounts(package_info) ==
    LatestKnown(package_info) /\ package_info.latest[1] # <<>>

\* C12, amended: _find_version_with_dependencies returns the declared latest
\* version when it counts (a non-empty string among the known versions) and
\* has a non-empty dependency mapping; otherwise the lexicographically
\* greatest version with a non-empty dependency mapping; and when no version
\* has dependencies, latest if it counts, else the lexicographically greatest
\* known version, else no version.
C12_VersionSelection ==
    VersionCalled =>
        LET info == reply.info
        IN  reply.value =
                IF LatestCounts(info) /\ info.latest[1] \in WithDependencies(info)
                THEN info.latest
                ELSE IF WithDependencies(info) # {}
                THEN Some(Greatest(WithDependencies(info)))
                ELSE IF LatestCounts(info) THEN info.latest
                ELSE IF DOMAIN info.versions # {} THEN Some(Greatest(DOMAIN info.versions))
                ELSE None

\* Version selection ran on an answer with "1", "10" and "2", none with
\* dependencies and no usable latest tag, and chose "2".
C12_Witness ==
    /\ VersionCalled
    /\ DOMAIN reply.info.versions = {<<49>>, <<49, 48>>, <<50>>}
    /\ WithDependencies(reply.info) = {}
    /\ ~LatestKnown(reply.info)
    /\ reply.value = Some(<<50>>)

----------------------------------------------------------------------------
(* The exports *)

\* The number of lines of a list that equal x.
Occurrences(lines, x) == Cardinality({i \in 1..Len(lines) : lines[i] = x})

\* The fillcolor the precedence root > has-error > no-dependencies >
\* has-dependencies gives a node.
RoleColour(p) ==
    CASE p = Root -> "orange"
      [] p # Root /\ dependency_graph[p].error # <<>> -> "lightcoral"
      [] p # Root /\ dependency_graph[p].error = <<>> /\ DepsOf(p) = {} -> "lightgreen"
      [] OTHER -> "lightblue"

\* C13: for a built, non-empty graph generate_graphviz emits exactly one node
\* declaration per graph key, styled by the precedence root > has-error >
\* no-dependencies > has-dependencies, and exactly one edge declaration per
\* (package, dependency) pair of the graph; for an empty graph both exports
\* return the empty string.
C13_ExportDeclarations ==
    /\ (reply.op = "generate_graphviz" /\ reply.raised = "none"
        /\ DOMAIN dependency_graph # {}) =>
          /\ ~reply.value.empty
          /\ \A i \in 1..Len(reply.value.nodes) :
                reply.value.nodes[i].package \in DOMAIN dependency_graph
          /\ \A p \in DOMAIN dependency_graph :
                /\ Occurrences(reply.value.nodes,
                               [package |-> p, fillcolor |-> RoleColour(p)]) = 1
                /\ Cardinality({i \in 1..Len(reply.value.nodes) :
                                    reply.value.nodes[i].package = p}) = 1
                /\ \A d \in DepsOf(p) : Occurrences(reply.value.edges, <<p, d>>) = 1
          /\ \A i \in 1..Len(reply.value.edges) :
                /\ reply.value.edges[i][1] \in DOMAIN dependency_graph
                /\ reply.value.edges[i][2] \in DepsOf(reply.value.edges[i][1])
    /\ (reply.op \in {"generate_graphviz", "generate_simple_graphviz"}
        /\ DOMAIN dependency_graph = {}) =>
          reply.value = EmptyText

\* The annotated export of a built graph whose root has an error or no
\* dependencies, and of one with an error node below a root with two edges.
C13_Witness ==
    /\ pc = "done"
    /\ reply.op = "generate_graphviz"
    /\ reply.raised = "none"
    /\ \/ DepsOf(Root) = {}
       \/ /\ Len(reply.value.edges) >= 3
          /\ \E i \in 1..Len(reply.value.nodes) :
                reply.value.nodes[i].fillcolor = "lightcoral"

----------------------------------------------------------------------------
(* Levels *)

LevelOf(p) == dependency_graph[p].level

\* path is a chain of edges of the graph that starts at the root.
IsDiscoveryPath(path) ==
    /\ path # <<>> => path[1] = Root
    /\ \A i \in 1..(Len(path) - 1) :
          /\ path[i] \in DOMAIN dependency_graph
          /\ path[i + 1] \in DepsOf(path[i])

\* C14: after a build in either mode the root's level is 0 and every other
\* node n, of level k, has k >= 1 and some node of level k-1 whose
\* dependencies contain n; while the traversal runs, the level a package is
\* about to get is the edge count of the path it was discovered along.
C14_LevelsFollowDiscovery ==
    /\ pc = "done" =>
          /\ Root \in DOMAIN dependency_graph
          /\ LevelOf(Root) = 0
          /\ \A n \in DOMAIN dependency_graph \ {Root} :
                /\ LevelOf(n) >= 1
                /\ \E p \in DOMAIN dependency_graph :
                      LevelOf(p) = LevelOf(n) - 1 /\ n \in DepsOf(p)
    /\ pc = "bfs" =>
          \A k \in 1..Len(queue) :
              /\ queue[k].level = Len(queue[k].path)
              /\ IsDiscoveryPath(queue[k].path)
    /\ pc = "dfs" =>
          \A k \in 2..Len(stack) :
              /\ LevelOf(stack[k].package) = Len(stack[k].path) - 1
              /\ IsDiscoveryPath(stack[k].path)

\* A completed per-call build in which a direct dependency of the root has
\* level 2: it was first discovered along a longer path.
C14_Witness ==
    /\ pc = "done"
    /\ Mode = "test"
    /\ \E n \in DepsOf(Root) : n # Root /\ LevelOf(n) = 2

----------------------------------------------------------------------------
(* Termination *)

\* The calls the frames of the recursion still have to make.
RECURSIVE PendingCalls(_)
PendingCalls(frames) ==
    IF frames = <<>> THEN 0
    ELSE (Len(Head(frames).deps) + 1 - Head(frames).i) + PendingCalls(Tail(frames))

\* A step of a running traversal visits a new package, or leaves the visited
\* set alone and leaves less to do: a shorter queue, fewer pending calls.
TraversalProgress ==
    (pc \in {"bfs", "dfs"} /\ pc' = pc) =>
        \/ /\ visited_packages \subseteq visited_packages'
           /\ visited_packages' # visited_packages
        \/ /\ visited_packages' = visited_packages
           /\ IF pc = "bfs" THEN Len(queue') < Len(queue)
              ELSE PendingCalls(stack') < PendingCalls(stack)

\* C15: a build terminates for every finite source in both traversal modes,
\* cycles, self-dependencies and shared sub-graphs included: the work queue
\* eventually becomes empty and the recursion eventually returns, because
\* every step either visits a package not visited before or consumes pending
\* work without adding any.
C15_BuildTerminates ==
    /\ (pc \in {"bfs", "dfs"})
           ~> /\ queue = <<>>
              /\ stack = <<>>
              /\ \/ pc = "done"
                 \/ pc = "failed" /\ Mode \notin Modes
    /\ [][TraversalProgress]_vars

\* A completed build over a source with a self-dependency, a longer cycle and
\* a package two packages depend on.
C15_Witness ==
    /\ pc = "done"
    /\ \E p \in DOMAIN dependency_graph : p \in DepsOf(p)
    /\ \E k \in 1..Len(cycles_detected) : Len(cycles_detected[k]) >= 2
    /\ \E d \in DOMAIN reverse_dependencies : Len(reverse_dependencies[d]) >= 2

----------------------------------------------------------------------------
(* The cycle finder against the builder *)

\* C16: in per-call modes _find_all_cycles, run on the graph a build
\* produced, returns exactly the list of cycles the builder detected during
\* that build: the same cycles, in the same element and list order.
C16_FinderAgreesWithPerCallBuilder ==
    (pc = "done" /\ Mode # "graph_file" /\ FinderCalled) =>
        Found = cycles_detected

\* The finder ran after a per-call build that detected two cycles.
C16_Witness ==
    /\ pc = "done"
    /\ Mode = "test"
    /\ FinderCalled
    /\ Len(cycles_detected) >= 2
    /\ Len(Found) >= 2

\* Some node of the graph lies on a directed cycle of it.
GraphHasCycle == \E p \in DOMAIN dependency_graph : OnGraphCycle(p)

\* The dependency entries of the graph.
RECURSIVE EdgeCount(_)
EdgeCount(keys) ==
    IF keys = <<>> THEN 0
    ELSE Len(dependency_graph[Head(keys)].dependencies) + EdgeCount(Tail(keys))

\* C17: _find_all_cycles returns a non-empty list exactly when the graph has
\* a directed cycle (a self-dependency included), and it terminates: it makes
\* at most one dfs call per key and one per dependency entry.
C17_FinderNonEmptyIffCycle ==
    FinderCalled =>
        /\ (Found # <<>>) <=> GraphHasCycle
        /\ reply.value.calls <= Len(graph_keys) + EdgeCount(graph_keys)

\* The finder ran on a graph built from an adjacency file whose only cycle
\* the builder did not report.
C17_Witness ==
    /\ pc = "done"
    /\ Mode = "graph_file"
    /\ FinderCalled
    /\ cycles_detected = <<>>
    /\ Found # <<>>

----------------------------------------------------------------------------
(* Breadth-first levels *)

\* The names a package lists in the loaded adjacency mapping.
FileDeps(p) == IF p \in DOMAIN file_graph THEN Range(file_graph[p]) ELSE {}

\* The packages at most k edges from the root in the loaded mapping.
RECURSIVE Within(_)
Within(k) ==
    IF k = 0 THEN {Root}
    ELSE Within(k - 1) \cup UNION {FileDeps(p) : p \in Within(k - 1)}

\* The least number of edges from the root to n.
Distance(n) ==
    CHOOSE k \in 0..Cardinality(Names) :
        n \in Within(k) /\ (k = 0 \/ n \notin Within(k - 1))

\* C18: in adjacency-file mode the level recorded for every node is its
\* shortest-path distance from the root in the loaded adjacency mapping, and
\* the nodes enter the graph in non-decreasing level order.
C18_LevelIsShortestDistance ==
    (Mode = "graph_file" /\ pc \in {"bfs", "done"}) =>
        /\ \A n \in DOMAIN dependency_graph :
              /\ n \in Within(Cardinality(Names))
              /\ LevelOf(n) = Distance(n)
        /\ \A i, j \in 1..Len(graph_keys) :
              i < j => LevelOf(graph_keys[i]) <= LevelOf(graph_keys[j])

\* A completed adjacency-file build in which the root lists p and then n,
\* p lists n as well, and n has level 1.
C18_Witness ==
    /\ pc = "done"
    /\ Mode = "graph_file"
    /\ \E p, n \in DOMAIN dependency_graph \ {Root} :
          /\ p # n
          /\ dependency_graph[Root].dependencies = <<p, n>>
          /\ n \in DepsOf(p)
          /\ LevelOf(n) = 1

----------------------------------------------------------------------------
(* Recorded cycles are pairwise different *)

\* No entry of the list is a rotation of another one, or the same entry again.
NoRotations(cycles) ==
    \A i, j \in 1..Len(cycles) : i # j => ~IsRotation(cycles[i], cycles[j])

\* Normalisation leaves the cycle extracted from path at package as it is.
ExtractionIsNormal(path, package) ==
    package \in Range(path) =>
        NormalizeCycle(CycleOf(path, package)) = CycleOf(path, package)

\* The first member of c has the strictly least value of `rank` in c.
StartsAtLeast(c, rank) == \A i \in 2..Len(c) : rank[c[1]] < rank[c[i]]

\* C19: neither the builder's detected-cycle list, in either mode, nor the
\* finder's result holds two entries that are rotations of one another or the
\* same entry twice; every path a traversal carries is duplicate-free, so
\* normalisation changes no extracted cycle; and each recorded cycle starts
\* at its member closest to the traversal root.
C19_NoRotationDuplicates ==
    /\ NoRotations(cycles_detected)
    /\ \A k \in 1..Len(cycles_detected) :
          StartsAtLeast(cycles_detected[k],
                        [p \in DOMAIN dependency_graph |-> LevelOf(p)])
    /\ \A k \in 1..Len(queue) :
          /\ IsDistinct(queue[k].path)
          /\ ExtractionIsNormal(queue[k].path, queue[k].package)
    /\ \A k \in 1..Len(stack) :
          /\ IsDistinct(stack[k].path)
          /\ \A i \in 1..Len(stack[k].deps) :
                ExtractionIsNormal(stack[k].path, stack[k].deps[i])
    /\ FinderCalled =>
          /\ NoRotations(Found)
          /\ \A k \in 1..Len(Found) : StartsAtLeast(Found[k], reply.value.depth)
          /\ \A path \in reply.value.paths : IsDistinct(path)
          /\ \A k \in 1..Len(reply.value.extracted) :
                NormalizeCycle(reply.value.extracted[k]) = reply.value.extracted[k]

\* A completed adjacency-file build in which a package lists twice the
\* dependency that closes a cycle, and the cycle is recorded.
C19_Witness ==
    /\ pc = "done"
    /\ Mode = "graph_file"
    /\ \E p \in DOMAIN file_graph, k \in 1..Len(cycles_detected) :
          /\ Len(file_graph[p]) = 2
          /\ file_graph[p][1] = file_graph[p][2]
          /\ cycles_detected[k][1] = file_graph[p][1]
          /\ cycles_detected[k][Len(cycles_detected[k])] = p
          /\ Len(cycles_detected[k]) >= 2

====
